---- MODULE Spec2Model ----
(***************************************************************************)
(* Statil: hierarchical template rendering (src/src/index.ts,              *)
(* src/lib/methods.js) and the template compiler (src/lib/template.js).    *)
(*                                                                         *)
(* Representation of JavaScript values used throughout:                    *)
(*  - a path string is the sequence of its "/"-separated segments, so      *)
(*    "a/t" is <<"a","t">>, "./x1" is <<".","x1">>, "/docs/" is            *)
(*    <<"","docs","">> and the empty string is <<>>;                       *)
(*  - a text string (template output, title) is a sequence of tokens and   *)
(*    string concatenation is \o;                                          *)
(*  - a value of unknown type is a record [ty, v] with ty the typeof tag.  *)
(***************************************************************************)
EXTENDS Integers, Sequences, FiniteSets, TLC

VARIABLES
  aPrefix, aData, aResult, aPc     \* $active: arguments, result, position

activeVars == <<aPrefix, aData, aResult, aPc>>

VARIABLES
  eData,                           \* $entitle: the context the calls act on
  eInit,                           \* its $title before the first call
  eCalls                           \* the titles passed so far, in call order

entitleVars == <<eData, eInit, eCalls>>

VARIABLES
  tTokens,                         \* compileTemplate: the segments the source is made of
  tSrc,                            \* the source string, as characters
  tCode,                           \* codeBody: the compiled instruction sequence
  tOut,                            \* the renderer's return value
  tPc                              \* "compile", "render", "done", "threw", "failed", "idle"

templateVars == <<tTokens, tSrc, tCode, tOut, tPc>>

VARIABLES
  templates,                       \* Statil.templates: <<[path, src]>> in key insertion order
  meta,                            \* Statil.meta: directory path -> parsed metadata
  rename,                          \* Statil.rename: the constructor's rename option
  nReg,                            \* number of register calls made
  regLog,                          \* metadata registrations: [dir, value, threw]
  pc                               \* position of the caller / of render()

registryVars == <<templates, meta, rename, nReg, regLog>>

VARIABLES
  rData,                           \* render(data): the caller's base data
  rIdx,                            \* render's position in the for..in loop
  rBuffer,                         \* render's buffer: output path -> [text, from]
  tBuffer,                         \* renderTemplate's buffer
  heap,                            \* the data objects of the current renderTemplate
  nDatas,                          \* renderTemplate: number of elements of datas
  dIdx,                            \* renderTemplate: the element _.each is at
  legends,                         \* renderTemplate: the echoed legends, if any
  echoPath,                        \* renderTemplate: the branch's virtual path
  todo,                            \* renderThrough: the chain members still to render
  calls,                           \* renderThrough: its renderOne calls so far
  frames                           \* the $include calls of the last template run

renderVars == <<rData, rIdx, rBuffer, tBuffer, heap, nDatas, dIdx, legends,
                echoPath, todo, calls, frames>>

vars == <<activeVars, entitleVars, templateVars, registryVars, pc, renderVars>>

(***************************************************************************)
(* Bounds                                                                  *)
(***************************************************************************)
MaxPathLen == 3
MaxEntitleCalls == 4
MaxTokens == 3
MaxRegister == 3
\* Nested $include calls the stack has room for; an include cycle exceeds
\* any limit and ends in a RangeError.
MaxIncludeDepth == 2

(***************************************************************************)
(* Characters of the path segments used by the model (String.prototype     *)
(* indexing and regular-expression matching work on characters).           *)
(***************************************************************************)
Chars(s) ==
  CASE s = ""      -> <<>>
    [] s = "."     -> <<".">>
    [] s = ".."    -> <<".", ".">>
    [] s = ".hid"  -> <<".", "h", "i", "d">>
    [] s = "docs"  -> <<"d", "o", "c", "s">>
    [] s = "blog"  -> <<"b", "l", "o", "g">>
    [] s = "a"     -> <<"a">>
    [] s = "t"     -> <<"t">>
    [] s = "u"     -> <<"u">>
    [] s = "x1"    -> <<"x", "1">>
    [] s = "x2"    -> <<"x", "2">>
    [] s = "index" -> <<"i", "n", "d", "e", "x">>
    [] s = "w"     -> <<"w">>
    [] s = "t.html"     -> <<"t", ".", "h", "t", "m", "l">>
    [] s = "x1.html"    -> <<"x", "1", ".", "h", "t", "m", "l">>
    [] s = "x2.html"    -> <<"x", "2", ".", "h", "t", "m", "l">>
    [] s = "index.html" -> <<"i", "n", "d", "e", "x", ".", "h", "t", "m", "l">>
    [] OTHER       -> <<s>>

(***************************************************************************)
(* Node's path module (posix), on segment sequences.                       *)
(***************************************************************************)
\* process.cwd(): the directory relative paths are resolved against.
Cwd == <<"w">>

IsAbs(p) == Len(p) >= 2 /\ p[1] = ""

RECURSIVE NormSegs(_, _, _)
\* Shared core of path.normalize / path.resolve: drops "" and "." segments,
\* lets ".." remove the segment before it; a ".." with nothing to remove is
\* dropped when the path is anchored at the root and kept otherwise.
NormSegs(p, acc, rooted) ==
  IF p = <<>> THEN acc
  ELSE LET s == Head(p) IN
       IF s = "" \/ s = "." THEN NormSegs(Tail(p), acc, rooted)
       ELSE IF s = ".."
            THEN IF acc # <<>> /\ acc[Len(acc)] # ".."
                 THEN NormSegs(Tail(p), SubSeq(acc, 1, Len(acc) - 1), rooted)
                 ELSE IF rooted THEN NormSegs(Tail(p), acc, rooted)
                      ELSE NormSegs(Tail(p), Append(acc, ".."), rooted)
            ELSE NormSegs(Tail(p), Append(acc, s), rooted)

\* path.resolve(p): the absolute, normalised segments of p (root = <<>>).
Resolve(p) == NormSegs((IF IsAbs(p) THEN <<>> ELSE Cwd) \o p, <<>>, TRUE)

RECURSIVE CommonLen(_, _)
CommonLen(f, t) ==
  IF f = <<>> \/ t = <<>> \/ Head(f) # Head(t) THEN 0
  ELSE 1 + CommonLen(Tail(f), Tail(t))

\* path.relative(from, to)
relative(from, to) ==
  LET f == Resolve(from)
      t == Resolve(to)
      k == CommonLen(f, t)
  IN [i \in 1..(Len(f) - k) |-> ".."] \o SubSeq(t, k + 1, Len(t))

\* str[0] of a path string: its first character, or "undefined" when empty.
FirstChar(p) ==
  IF p = <<>> THEN "undefined"
  ELSE IF Chars(p[1]) = <<>> THEN "/"
  ELSE Chars(p[1])[1]

Str(p) == [ty |-> "string", v |-> p]
Undefined == [ty |-> "undefined", v |-> <<>>]
Number == [ty |-> "number", v |-> <<>>]

\* typeof x === 'string' && x (a non-empty string)
IsTruthyString(x) == x.ty = "string" /\ x.v # <<>>

\* The value of a missing key, and the metadata and legend read from one.
NoMeta == [ty |-> "undefined", ignore |-> Undefined, files |-> <<>>, groupX |-> <<>>]
NoLegend == [ty |-> "undefined", name |-> Undefined, echo |-> Undefined, tag |-> Undefined]

\* The directories the registries are observed at.
Dirs == {<<".">>, <<"a">>}

\* new Statil(options): empty registries.
InitRegistry ==
  /\ templates = <<>>
  /\ meta = [d \in Dirs |-> NoMeta]
  /\ nReg = 0
  /\ regLog = <<>>

statilVars == <<registryVars, pc, renderVars>>

\* No render() call is in progress.
InitRender ==
  /\ rData = [ty |-> "undefined"]
  /\ rIdx = 0
  /\ rBuffer = <<>>
  /\ tBuffer = <<>>
  /\ heap = <<>>
  /\ nDatas = 0
  /\ dIdx = 0
  /\ legends = <<>>
  /\ echoPath = <<>>
  /\ todo = <<>>
  /\ calls = <<>>
  /\ frames = <<>>

IdleStatil ==
  /\ InitRegistry
  /\ InitRender
  /\ rename = "none"
  /\ pc = "idle"

IdleTemplate ==
  /\ tTokens = <<>>
  /\ tSrc = <<>>
  /\ tCode = <<>>
  /\ tOut = <<>>
  /\ tPc = "idle"

IdleEntitle ==
  /\ eData = [ty |-> "undefined", title |-> Undefined]
  /\ eInit = eData
  /\ eCalls = <<>>

(***************************************************************************)
(* methods.$active                                                         *)
(***************************************************************************)
active(path, data) ==
  IF data.ty # "object" THEN <<>>
  ELSE IF path.ty # "string" THEN <<>>
  ELSE IF data.path.ty # "string" THEN <<>>
  ELSE LET rel == relative(path.v, data.path.v) IN
       IF FirstChar(rel) # "." THEN <<"active">> ELSE <<>>

\* methods.$act
act(path, data) ==
  IF active(path, data) # <<>> THEN <<"class=\"active\"">> ELSE <<>>

ActiveSegs == {"", "docs", ".hid", ".."}

RECURSIVE SeqsUpTo(_, _)
SeqsUpTo(S, n) ==
  IF n = 0 THEN {<<>>}
  ELSE LET R == SeqsUpTo(S, n - 1) IN
       R \cup {Append(r, s) : r \in {q \in R : Len(q) = n - 1}, s \in S}

ActivePaths == SeqsUpTo(ActiveSegs, MaxPathLen) \ {<<"">>}


ActiveArgs == {Str(p) : p \in ActivePaths} \cup {Undefined}
ActiveDatas ==
  {[ty |-> "object", path |-> a] : a \in ActiveArgs} \cup
  {[ty |-> "undefined", path |-> Undefined]}

IdleActive ==
  /\ aPrefix = Undefined
  /\ aData = [ty |-> "undefined", path |-> Undefined]
  /\ aResult = <<>>
  /\ aPc = "idle"

InitActive ==
  /\ aPrefix \in ActiveArgs
  /\ aData \in ActiveDatas
  /\ aResult = <<>>
  /\ aPc = "call"
  /\ IdleEntitle
  /\ IdleTemplate
  /\ IdleStatil

\* One call of $active(prefix, data) from a template body.
CallActive ==
  /\ aPc = "call"
  /\ aResult' = active(aPrefix, aData)
  /\ aPc' = "done"
  /\ UNCHANGED <<aPrefix, aData>>
  /\ UNCHANGED <<entitleVars, templateVars, statilVars>>

NextActive == CallActive
SpecActive == InitActive /\ [][NextActive]_vars

\* $path is prefix itself or lies below it in the directory tree.
IsUnder(prefix, path) ==
  LET f == Resolve(prefix)
      t == Resolve(path)
  IN Len(f) <= Len(t) /\ SubSeq(t, 1, Len(f)) = f

ActiveCalled == aPc = "done" /\ aPrefix.ty = "string" /\ aData.ty = "object" /\ aData.path.ty = "string"

\* C9: for string prefix and string $path, $active returns "active" exactly
\* when $path equals prefix or is nested under it, dot-segments included.
ActiveIffUnder ==
  ActiveCalled =>
    ((aResult = <<"active">>) <=> IsUnder(aPrefix.v, aData.path.v))

\* What the code computes instead: nested paths whose first segment below
\* prefix begins with a dot are reported as not active.
ActiveIffUnderNoDot ==
  ActiveCalled =>
    ((aResult = <<"active">>) <=>
       /\ IsUnder(aPrefix.v, aData.path.v)
       /\ LET f == Resolve(aPrefix.v)
              t == Resolve(aData.path.v)
          IN Len(t) > Len(f) => Chars(t[Len(f) + 1])[1] # ".")

(***************************************************************************)
(* methods.$entitle                                                        *)
(***************************************************************************)
\* $entitle with the new part added after the existing title.
entitleAppend(title, data) ==
  IF data.ty # "object" THEN data
  ELSE IF ~IsTruthyString(title) THEN data
  ELSE IF ~IsTruthyString(data.title)
       THEN [data EXCEPT !.title = title]
       ELSE [data EXCEPT !.title = Str(data.title.v \o <<" | ">> \o title.v)]

\* Returns the context after the call (the function mutates it in place).
entitle(title, data) ==
  IF data.ty # "object" THEN data
  ELSE IF ~IsTruthyString(title) THEN data
  ELSE IF ~IsTruthyString(data.title)
       THEN [data EXCEPT !.title = title]
       ELSE [data EXCEPT !.title = Str(title.v \o <<" | ">> \o data.title.v)]

EntitleTitles == {Str(<<"A">>), Str(<<"B">>), Str(<<>>), Undefined, Number}
EntitleDatas ==
  {[ty |-> "object", title |-> t] : t \in {Undefined, Str(<<>>)}} \cup
  {[ty |-> "undefined", title |-> Undefined]}

InitEntitle ==
  /\ eData \in EntitleDatas
  /\ eInit = eData
  /\ eCalls = <<>>
  /\ IdleActive
  /\ IdleTemplate
  /\ IdleStatil

\* One call of $entitle(title, data) from a template body.
CallEntitle ==
  /\ Len(eCalls) < MaxEntitleCalls
  /\ \E t \in EntitleTitles :
       /\ eData' = entitle(t, eData)
       /\ eCalls' = Append(eCalls, t)
  /\ UNCHANGED eInit
  /\ UNCHANGED <<activeVars, templateVars, statilVars>>

NextEntitle == CallEntitle
SpecEntitle == InitEntitle /\ [][NextEntitle]_vars

RECURSIVE JoinReversed(_)
\* The non-empty string titles of calls, last call first, joined by " | ".
JoinReversed(titles) ==
  IF titles = <<>> THEN <<>>
  ELSE LET t == titles[Len(titles)]
           rest == JoinReversed(SubSeq(titles, 1, Len(titles) - 1))
       IN IF ~IsTruthyString(t) THEN rest
          ELSE IF rest = <<>> THEN t.v
          ELSE t.v \o <<" | ">> \o rest

\* C8: after any sequence of $entitle calls on a context whose $title was
\* unset or empty, $title is the non-empty string titles in reverse call
\* order joined by " | "; calls with another title, or on a non-object,
\* change nothing.
EntitlePrepends ==
  LET joined == JoinReversed(eCalls) IN
  IF eInit.ty = "object" /\ joined # <<>>
  THEN eData = [eInit EXCEPT !.title = Str(joined)]
  ELSE eData = eInit

EntitleWitness ==
  /\ eData.ty = "object"
  /\ eData.title = Str(<<"B", " | ", "A">>)
  /\ \E i \in 1..Len(eCalls) : ~IsTruthyString(eCalls[i])

(***************************************************************************)
(* src/lib/template.js: compileTemplate.  Strings are character sequences; *)
(* "LS" and "PS" stand for the characters U+2028 and U+2029.               *)
(***************************************************************************)
Max(S) == CHOOSE x \in S : \A y \in S : y <= x
Min(S) == CHOOSE x \in S : \A y \in S : x <= y

\* The characters matched by \s among those the model uses.
IsSpace(c) == c \in {" ", "\n", "\r", "LS", "PS"}

RECURSIVE WsRun(_, _)
\* Number of consecutive \s characters of s starting at position j.
WsRun(s, j) ==
  IF j <= Len(s) /\ IsSpace(s[j]) THEN 1 + WsRun(s, j + 1) ELSE 0

NoMatch == [ok |-> FALSE, body |-> <<>>, end |-> 0]

\* \s*cc matched at position j: the position after the match, 0 if none.
CloseEnd(s, j, c) ==
  LET j2 == j + WsRun(s, j) IN
  IF j2 + 1 <= Len(s) /\ s[j2] = c /\ s[j2 + 1] = c THEN j2 + 2 ELSE 0

\* One delimiter alternative oo\s*([\s\S]+?)\s*cc tried at position p:
\* the leading \s* is greedy, the body lazy and at least one character.
DelimMatch(s, p, o, c) ==
  IF p + 1 > Len(s) \/ s[p] # o \/ s[p + 1] # o THEN NoMatch
  ELSE LET q == p + 2
           Ends(k) == {e \in (q + k)..Len(s) : CloseEnd(s, e + 1, c) # 0}
           ks == {k \in 0..WsRun(s, q) : Ends(k) # {}}
       IN IF ks = {} THEN NoMatch
          ELSE LET k == Max(ks)
                   e == Min(Ends(k))
               IN [ok |-> TRUE, body |-> SubSeq(s, q + k, e),
                   end |-> CloseEnd(s, e + 1, c)]

\* defaultSettings.reExpression and defaultSettings.reStatement
reExpression(s, p) == DelimMatch(s, p, "{", "}")
reStatement(s, p) == DelimMatch(s, p, "<", ">")

\* escapeSpecialChar without the backslash entry of specialEscapes.
escapeSpecialCharNoBackslash(char) ==
  CASE char = "'"  -> <<"\\", "'">>
    [] char = "\n" -> <<"\\", "n">>
    [] char = "\r" -> <<"\\", "r">>
    [] char = "LS" -> <<"\\", "u", "2", "0", "2", "8">>
    [] char = "PS" -> <<"\\", "u", "2", "0", "2", "9">>
    [] OTHER       -> <<char>>

\* reSpecialChars with specialEscapes
escapeSpecialChar(char) ==
  CASE char = "\\" -> <<"\\", "\\">>
    [] char = "'"  -> <<"\\", "'">>
    [] char = "\n" -> <<"\\", "n">>
    [] char = "\r" -> <<"\\", "r">>
    [] char = "LS" -> <<"\\", "u", "2", "0", "2", "8">>
    [] char = "PS" -> <<"\\", "u", "2", "0", "2", "9">>
    [] OTHER       -> <<char>>

RECURSIVE EscapeAll(_)
\* content.replace(reSpecialChars, escapeSpecialChar)
EscapeAll(s) ==
  IF s = <<>> THEN <<>> ELSE escapeSpecialChar(Head(s)) \o EscapeAll(Tail(s))

Instr(op, text) == [op |-> op, text |-> text]

RECURSIVE Scan(_, _, _)
\* The string.replace(reDelimiters, ...) loop: index is the position after
\* the previous match; the next match is the leftmost position where the
\* expression, the statement or the end-of-string alternative matches.
Scan(s, index, code) ==
  LET hits == {p \in index..Len(s) :
                 reExpression(s, p).ok \/ reStatement(s, p).ok}
      offset == IF hits = {} THEN Len(s) + 1 ELSE Min(hits)
      content == EscapeAll(SubSeq(s, index, offset - 1))
      c1 == IF content # <<>> THEN Append(code, Instr("lit", content)) ELSE code
  IN IF offset = Len(s) + 1 THEN c1
     ELSE LET e == reExpression(s, offset)
              m == IF e.ok THEN e ELSE reStatement(s, offset)
              c2 == IF e.ok THEN Append(c1, Instr("expr", m.body))
                    ELSE Append(c1, Instr("stmt", m.body))
          IN Scan(s, m.end, c2)

\* compileTemplate's codeBody for the source string.
codeBody(string) == Scan(string, 1, <<>>)

Failed == [ok |-> FALSE, v |-> <<>>]

RECURSIVE ReadLiteral(_)
\* The value of the single-quoted string literal with the given content,
\* as the host language reads it; not ok when the content does not form one
\* literal (a bare quote or line terminator, a trailing backslash).
ReadLiteral(s) ==
  IF s = <<>> THEN [ok |-> TRUE, v |-> <<>>]
  ELSE LET h == Head(s) IN
    IF h \in {"'", "\n", "\r"} THEN Failed
    ELSE IF h # "\\"
    THEN LET r == ReadLiteral(Tail(s)) IN
         IF r.ok THEN [ok |-> TRUE, v |-> <<h>> \o r.v] ELSE Failed
    ELSE IF Len(s) = 1 THEN Failed
    ELSE LET n == s[2] IN
      IF n = "u"
      THEN IF Len(s) >= 6 /\ SubSeq(s, 3, 5) = <<"2", "0", "2">> /\ s[6] \in {"8", "9"}
           THEN LET r == ReadLiteral(SubSeq(s, 7, Len(s))) IN
                IF r.ok
                THEN [ok |-> TRUE, v |-> <<IF s[6] = "8" THEN "LS" ELSE "PS">> \o r.v]
                ELSE Failed
           ELSE Failed
      ELSE LET r == ReadLiteral(SubSeq(s, 3, Len(s)))
               ch == CASE n = "n" -> "\n" [] n = "r" -> "\r" [] OTHER -> n
           IN IF r.ok THEN [ok |-> TRUE, v |-> <<ch>> \o r.v] ELSE Failed

\* The context object the renderer is called with: {x: 'XY', m: 5, n: null};
\* any other key reads as undefined.
Null == [ty |-> "null", v |-> <<>>]
ContextValue(key) ==
  CASE key = "x" -> Str(<<"X", "Y">>)
    [] key = "m" -> [ty |-> "number", v |-> <<"5">>]
    [] key = "n" -> Null
    [] OTHER     -> Undefined

Identifiers == {"x", "m", "n", "u"}

\* An expression fragment inside the generated strict function, where the
\* context is bound to "$" only (contextName) and there is no `with`:
\* "$.key" reads the key of the context, a bare identifier is a free
\* variable and throws a ReferenceError when evaluated, and any other text
\* of the model's alphabet does not parse.
Evaluate(text) ==
  IF Len(text) = 3 /\ text[1] = "$" /\ text[2] = "." /\ text[3] \in Identifiers
  THEN [st |-> "value", val |-> ContextValue(text[3])]
  ELSE IF Len(text) = 1 /\ text[1] \in Identifiers
  THEN [st |-> "ReferenceError", val |-> Undefined]
  ELSE [st |-> "SyntaxError", val |-> Undefined]

\* Function(['__context'], code): whether the generated code parses.
\* Statement fragments are not part of the sources modelled.
Parses(code) ==
  \A k \in 1..Len(code) :
    \/ code[k].op = "lit" /\ ReadLiteral(code[k].text).ok
    \/ code[k].op = "expr" /\ Evaluate(code[k].text).st # "SyntaxError"

\* function __append(val) {if (val != null) __out += val}
appendValue(out, val) ==
  IF val.ty \in {"null", "undefined"} THEN out ELSE out \o val.v

RECURSIVE Run(_, _)
\* The compiled renderer's body: executes the instructions in order; not ok
\* when an instruction throws.
Run(code, out) ==
  IF code = <<>> THEN [ok |-> TRUE, v |-> out]
  ELSE LET i == Head(code) IN
    IF i.op = "lit"
    THEN LET l == ReadLiteral(i.text) IN
         IF l.ok THEN Run(Tail(code), appendValue(out, Str(l.v))) ELSE Failed
    ELSE IF i.op = "expr"
    THEN LET e == Evaluate(i.text) IN
         IF e.st # "value" THEN Failed
         ELSE Run(Tail(code), appendValue(out, e.val))
    ELSE Failed

\* The segments a source is made of: one literal character, one value
\* delimiter around a read of a context key ("expr"), or one value
\* delimiter around a bare identifier ("bare").
LiteralChars == {"a", "n", "'", "\\", "\n", "LS", " ", "}", "{"}
Lit(c) == [kind |-> "lit", text |-> <<c>>, key |-> ""]
Expr(before, key, after) ==
  [kind |-> "expr",
   text |-> <<"{", "{">> \o before \o <<"$", ".", key>> \o after \o <<"}", "}">>,
   key |-> key]
Bare(key) == [kind |-> "bare", text |-> <<"{", "{", key, "}", "}">>, key |-> key]
ExprTokens ==
  { Expr(<<>>, "x", <<>>),
    Expr(<<" ">>, "n", <<" ">>),
    Expr(<<>>, "u", <<"\n">>),
    Expr(<<" ", " ">>, "m", <<>>),
    Bare("x") }
Tokens == {Lit(c) : c \in LiteralChars} \cup ExprTokens

\* A "{" written right before a value delimiter would be read as part of
\* the delimiter, so such a source is not made of these segments.
WellSegmented(ts) ==
  \A i \in 1..(Len(ts) - 1) :
    ~(ts[i] = Lit("{") /\ (ts[i + 1].kind # "lit" \/ ts[i + 1] = Lit("{")))

RECURSIVE Flatten(_)
Flatten(ts) == IF ts = <<>> THEN <<>> ELSE Head(ts).text \o Flatten(Tail(ts))

InitTemplate ==
  /\ tTokens \in {ts \in SeqsUpTo(Tokens, MaxTokens) : WellSegmented(ts)}
  /\ tSrc = Flatten(tTokens)
  /\ tCode = <<>>
  /\ tOut = <<>>
  /\ tPc = "compile"
  /\ IdleActive
  /\ IdleEntitle
  /\ IdleStatil

\* compileTemplate(string): builds codeBody and the renderer function; the
\* Function constructor throws when the generated code does not parse.
Compile ==
  /\ tPc = "compile"
  /\ tCode' = codeBody(tSrc)
  /\ tPc' = IF Parses(codeBody(tSrc)) THEN "render" ELSE "threw"
  /\ UNCHANGED <<tTokens, tSrc, tOut>>
  /\ UNCHANGED <<activeVars, entitleVars, statilVars>>

\* One call of the compiled renderer: it returns __out, or throws when an
\* expression does.
Render ==
  /\ tPc = "render"
  /\ IF Run(tCode, <<>>).ok
     THEN tOut' = Run(tCode, <<>>).v /\ tPc' = "done"
     ELSE tOut' = tOut /\ tPc' = "failed"
  /\ UNCHANGED <<tTokens, tSrc, tCode>>
  /\ UNCHANGED <<activeVars, entitleVars, statilVars>>

NextTemplate == Compile \/ Render
SpecTemplate == InitTemplate /\ [][NextTemplate]_vars

RECURSIVE ExpectedOutput(_)
\* Every literal segment unchanged and the string form of every expression
\* value, null and undefined contributing nothing, in source order.
ExpectedOutput(ts) ==
  IF ts = <<>> THEN <<>>
  ELSE LET t == Head(ts)
           val == ContextValue(t.key)
       IN (IF t.kind = "lit" THEN t.text
           ELSE IF val.ty \in {"null", "undefined"} THEN <<>> ELSE val.v)
          \o ExpectedOutput(Tail(ts))

\* Every expression of the source has a value (none is a free variable).
AllEvaluate == \A i \in 1..Len(tTokens) : tTokens[i].kind # "bare"

\* C6: a source of literal text and value delimiters compiles, and when its
\* expressions evaluate its renderer returns the literals unchanged and the
\* expression values' string forms in source order, null and undefined
\* contributing nothing; without delimiters, the source itself.
TemplateOutput ==
  /\ tPc # "threw"
  /\ tPc = "failed" => ~AllEvaluate
  /\ (tPc = "done" /\ AllEvaluate) =>
       /\ tOut = ExpectedOutput(tTokens)
       /\ (\A i \in 1..Len(tTokens) : tTokens[i].kind = "lit") => tOut = tSrc

TemplateWitness ==
  /\ tPc = "done"
  /\ \E i, j, k \in 1..Len(tTokens) :
       /\ tTokens[i] = Lit("\\")
       /\ tTokens[j] = Expr(<<" ">>, "n", <<" ">>)
       /\ tTokens[k] = Expr(<<>>, "x", <<>>)
  /\ Len(tOut) = 3

(***************************************************************************)
(* Node's path module, continued: the functions the registries use.        *)
(***************************************************************************)
\* path.dirname
dirname(p) ==
  IF Len(p) <= 1 THEN <<".">>
  ELSE IF Len(p) = 2 /\ p[1] = "" THEN <<"", "">>
  ELSE SubSeq(p, 1, Len(p) - 1)

\* path.basename (without the extension argument)
basename(p) == IF p = <<>> THEN "" ELSE p[Len(p)]

\* path.join(a, b): the normalised concatenation; "." when nothing is left.
join(a, b) ==
  LET n == NormSegs(a \o b, <<>>, IsAbs(a)) IN
  IF IsAbs(a) THEN <<"">> \o (IF n = <<>> THEN <<"">> ELSE n)
  ELSE IF n = <<>> THEN <<".">> ELSE n

\* path.parse(path): the base name and the extension of the last segment.
SplitExt(seg) ==
  CASE seg = "t.html"     -> <<"t", ".html">>
    [] seg = "index.html" -> <<"index", ".html">>
    [] seg = "meta.yaml"  -> <<"meta", ".yaml">>
    [] seg = "meta.json"  -> <<"meta", ".json">>
    [] OTHER              -> <<seg, "">>

extname(p) == SplitExt(basename(p))[2]

\* statics.stripExt: the path without its file extension.
stripExt(p) ==
  IF p = <<>> THEN p ELSE [p EXCEPT ![Len(p)] = SplitExt(p[Len(p)])[1]]

(***************************************************************************)
(* Metadata sources and their parse (yaml.safeLoad).                       *)
(***************************************************************************)
Legend(name, echo, tag) ==
  [ty |-> "object", name |-> name, echo |-> echo, tag |-> tag]

Meta(ignore, files, groupX) ==
  [ty |-> "object", ignore |-> ignore, files |-> files, groupX |-> groupX]

MetaSources == {"", "echo", "echo-dot", "ignore", "echo-missing"}

safeLoad(source) ==
  CASE source = "" -> NoMeta
    [] source = "echo" ->
         Meta(Undefined,
              <<Legend(Str(<<"t">>), Str(<<"groupX">>), Str(<<"T">>))>>,
              <<Legend(Str(<<"x1">>), Undefined, Undefined),
                Legend(Str(<<"x2">>), Undefined, Str(<<"X2">>))>>)
    [] source = "echo-dot" ->
         Meta(Str(<<"x">>),
              <<Legend(Str(<<"t">>), Str(<<"groupX">>), Undefined)>>,
              <<Legend(Str(<<"x1">>), Undefined, Undefined),
                Legend(Str(<<".", "x1">>), Undefined, Undefined)>>)
    [] source = "ignore" ->
         Meta(Str(<<"^", "t">>),
              <<Legend(Str(<<"index">>), Undefined, Str(<<"I">>))>>,
              <<>>)
    [] source = "echo-missing" ->
         Meta(Undefined,
              <<Legend(Str(<<"t">>), Str(<<"groupY">>), Undefined)>>,
              <<>>)

\* Template sources: what the compiled renderer does, as a sequence of
\* steps (text, a context key's value, or a helper call).
TemplateSources == {"leaf", "wrap", "inc"}

Op(op, arg) == [op |-> op, arg |-> arg]

template(source) ==
  CASE source = "leaf" -> <<Op("lit", <<"L">>), Op("name", <<>>)>>
    [] source = "wrap" -> <<Op("entitle", <<"W">>), Op("lit", <<"[">>),
                            Op("content", <<>>), Op("lit", <<"]">>)>>
    [] source = "inc"  -> <<Op("include", <<"a", "t">>), Op("content", <<>>),
                            Op("title", <<>>)>>

TemplateFiles == {<<"a", "t.html">>, <<"a", "index.html">>, <<"", "w", "index.html">>}
MetaFiles == {<<"a", "meta.yaml">>, <<"", "w", "a", "meta.json">>}

(***************************************************************************)
(* Statil.register                                                         *)
(***************************************************************************)
\* this.templates[path]
templateAt(tpls, path) ==
  LET hit == {i \in 1..Len(tpls) : tpls[i].path = path} IN
  IF hit = {} THEN "" ELSE tpls[Min(hit)].src

\* this.templates[path] = compiled
putTemplate(tpls, path, src) ==
  LET hit == {i \in 1..Len(tpls) : tpls[i].path = path} IN
  IF hit = {} THEN Append(tpls, [path |-> path, src |-> src])
  ELSE [tpls EXCEPT ![Min(hit)] = [path |-> path, src |-> src]]

\* this.meta[path]
metaAt(m, path) == IF path \in DOMAIN m THEN m[path] ELSE NoMeta

\* if (this.meta[path]): the stored value is truthy.
hasMeta(m, path) == metaAt(m, path).ty = "object"

\* The files the caller registers: relative or absolute paths.
Files == TemplateFiles \cup MetaFiles

\* The texts the caller passes for a file of the given extension.
SourcesFor(ext) ==
  IF ext \in {".yaml", ".json"} THEN MetaSources ELSE TemplateSources

\* register(source, path): a .yaml or .json file is parsed and stored as the
\* metadata of its directory unless that directory has one, in which case
\* the call throws; any other file is compiled and stored as a template
\* under its path without the extension.
Register ==
  /\ pc = "setup"
  /\ nReg < MaxRegister
  /\ \E file \in Files :
       LET path == relative(<<"">> \o Cwd, file)
           dir == dirname(path)
       IN \E source \in SourcesFor(extname(path)) :
            IF extname(path) = ".yaml" \/ extname(path) = ".json"
            THEN /\ meta' = IF hasMeta(meta, dir) THEN meta
                            ELSE [meta EXCEPT ![dir] = safeLoad(source)]
                 /\ regLog' = Append(regLog,
                                [dir |-> dir, value |-> safeLoad(source),
                                 threw |-> hasMeta(meta, dir)])
                 /\ UNCHANGED templates
            ELSE /\ templates' = putTemplate(templates, stripExt(path), source)
                 /\ UNCHANGED <<meta, regLog>>
  /\ nReg' = nReg + 1
  /\ UNCHANGED <<rename, pc, renderVars>>
  /\ UNCHANGED <<activeVars, entitleVars, templateVars>>

(***************************************************************************)
(* Render contexts.  A context lives in a heap of objects and is referred  *)
(* to by its index, so that "$" (the self reference) and in-place mutation *)
(* are what they are in the program.                                       *)
(***************************************************************************)
\* new Hash(): an object without keys (self = 0: no "$" key).
EmptyHash ==
  [ty |-> "object", name |-> Undefined, path |-> Undefined,
   content |-> Undefined, title |-> Undefined, self |-> 0, meta |-> NoMeta,
   echo |-> Undefined, tag |-> Undefined]

NoData == [EmptyHash EXCEPT !.ty = "undefined"]

\* new Hash(attrs): a new object with the own keys of attrs.
Hash(attrs) == IF attrs.ty = "object" THEN attrs ELSE EmptyHash

\* _.assign(data, legend): copies the keys the legend has.
assign(data, legend) ==
  IF legend.ty # "object" THEN data
  ELSE [data EXCEPT
          !.name = IF legend.name.ty # "undefined" THEN legend.name ELSE @,
          !.echo = IF legend.echo.ty # "undefined" THEN legend.echo ELSE @,
          !.tag  = IF legend.tag.ty # "undefined" THEN legend.tag ELSE @]

\* Statil.metaAtPath
metaAtPath(m, path) ==
  LET dir == IF path # <<>> /\ path[Len(path)] = "" /\ Len(path) >= 2
             THEN SubSeq(path, 1, Len(path) - 1)
             ELSE dirname(path)
  IN metaAt(m, dir)

\* Statil.fileLegend
fileLegend(m, path) ==
  LET mt == metaAtPath(m, path)
      hit == {i \in 1..Len(mt.files) : mt.files[i].name = Str(<<basename(path)>>)}
  IN IF mt.ty = "object" /\ hit # {} THEN mt.files[Min(hit)] ELSE NoLegend

\* statics.echoLegend: the legends of the group the legend's echo names,
\* each inheriting the legend's keys; not ok when the group is missing or
\* an element has no name.
echoLegend(mt, legend) ==
  LET group == IF mt.ty = "object" /\ legend.echo = Str(<<"groupX">>)
               THEN mt.groupX ELSE <<>>
  IN IF group = <<>> \/ \E i \in 1..Len(group) : ~IsTruthyString(group[i].name)
     THEN [ok |-> FALSE, legends |-> <<>>]
     ELSE [ok |-> TRUE,
           legends |-> [i \in 1..Len(group) |->
              [legend EXCEPT
                 !.name = group[i].name,
                 !.echo = IF group[i].echo.ty # "undefined" THEN group[i].echo ELSE @,
                 !.tag  = IF group[i].tag.ty # "undefined" THEN group[i].tag ELSE @]]]

\* statics.split: the index template of every directory from the root down
\* to the path's own, then the path itself unless it is an index.
split(path) ==
  [i \in 1..Len(path) |-> Append(SubSeq(path, 1, i - 1), "index")]
    \o (IF basename(path) # "index" THEN <<path>> ELSE <<>>)

\* statics.transclude: the renderer used where no template is registered.
transclude == <<Op("content", <<>>)>>

\* str.match(pattern) for a pattern of literal characters with an optional
\* leading "^".
match(str, pattern) ==
  IF pattern # <<>> /\ pattern[1] = "^"
  THEN LET lit == Tail(pattern) IN
       Len(lit) <= Len(str) /\ SubSeq(str, 1, Len(lit)) = lit
  ELSE \E i \in 1..(Len(str) + 1) :
         i + Len(pattern) - 1 <= Len(str) /\
         SubSeq(str, i, i + Len(pattern) - 1) = pattern

\* isIgnored without the ignore test.
isIgnoredNever(m, path) == FALSE

\* methods.isIgnored
isIgnored(m, path) ==
  LET mt == metaAtPath(m, path) IN
  IF mt.ty # "object" \/ ~IsTruthyString(mt.ignore) THEN FALSE
  ELSE match(Chars(basename(path)), mt.ignore.v)

\* methods.locals: the data object after the default locals are written.
locals(m, path, data, id) ==
  LET d1 == [data EXCEPT
               !.content = IF @.ty # "string" THEN Str(<<>>) ELSE @,
               !.title = IF @.ty # "string" THEN Str(<<>>) ELSE @,
               !.self = id]
      mt == metaAtPath(m, path)
      d2 == IF mt.ty = "object" THEN [d1 EXCEPT !.meta = mt] ELSE d1
  IN assign(d2, fileLegend(m, path))

\* The renderer lookup without the transclude fallback.
rendererNoFallback(tpls, path) ==
  IF templateAt(tpls, stripExt(path)) # ""
  THEN [ok |-> TRUE, ops |-> template(templateAt(tpls, stripExt(path)))]
  ELSE [ok |-> FALSE, ops |-> <<>>]

\* this.templates[statics.stripExt(path)] || statics.transclude
renderer(tpls, path) ==
  IF templateAt(tpls, stripExt(path)) # ""
  THEN [ok |-> TRUE, ops |-> template(templateAt(tpls, stripExt(path)))]
  ELSE [ok |-> TRUE, ops |-> transclude]

\* The string a value contributes to a template's output.
Text(val) == IF val.ty \in {"undefined", "null"} THEN <<>> ELSE val.v

RECURSIVE renderOne(_, _, _, _, _, _)
RECURSIVE call(_, _, _, _, _, _)

\* $include passing the caller's data object itself to renderOne.
includeNoClone(path, id, st, tpls, m, depth) ==
  LET r == renderOne(path, id, st, tpls, m, depth + 1) IN
  [r EXCEPT !.frames = Append(st.frames,
      [caller |-> id, before |-> st.heap[id], after |-> r.heap[id],
       callee |-> r.heap[id]])]

\* methods.$include: renders path with a clone of the data object id.
\* st carries the heap, the output so far and the record of include calls.
include(path, id, st, tpls, m, depth) ==
  LET n == Len(st.heap) + 1
      r == renderOne(path, n, [st EXCEPT !.heap = Append(@, Hash(st.heap[id]))],
                     tpls, m, depth + 1)
  IN IF ~r.ok THEN r
     ELSE [r EXCEPT !.frames = Append(st.frames,
             [caller |-> id, before |-> st.heap[id], after |-> r.heap[id],
              callee |-> r.heap[n]])]

\* template.call(this, data): runs the renderer's steps against the data
\* object id (the names a template body uses resolve to that object's keys,
\* "$" to its self reference).  st.out is the text produced so far.
call(ops, id, st, tpls, m, depth) ==
  IF ops = <<>> \/ ~st.ok THEN st
  ELSE LET o == Head(ops)
           d == st.heap[id]
           st2 ==
             CASE o.op = "lit"     -> [st EXCEPT !.out = @ \o o.arg]
               [] o.op = "name"    -> [st EXCEPT !.out = @ \o Text(d.name)]
               [] o.op = "content" -> [st EXCEPT !.out = @ \o Text(d.content)]
               [] o.op = "title"   -> [st EXCEPT !.out = @ \o Text(d.title)]
               [] o.op = "entitle" ->
                    [st EXCEPT !.heap[d.self] = entitle(Str(o.arg), @)]
               [] o.op = "include" ->
                    IF depth >= MaxIncludeDepth THEN [st EXCEPT !.ok = FALSE]
                    ELSE LET r == include(o.arg, d.self,
                                          [st EXCEPT !.out = <<>>], tpls, m, depth)
                         IN [r EXCEPT !.out = st.out \o r.out]
       IN call(Tail(ops), id, st2, tpls, m, depth)

\* methods.renderOne: st.out of the result is the rendered string.
renderOne(path, id, st, tpls, m, depth) ==
  LET rd == renderer(tpls, path)
      st1 == [st EXCEPT !.heap[id] = locals(m, path, @, id), !.out = <<>>]
  IN IF ~rd.ok THEN [st1 EXCEPT !.ok = FALSE]
     ELSE call(rd.ops, id, st1, tpls, m, depth)

(***************************************************************************)
(* Statil.render and methods.renderTemplate / renderThrough / renderOne,   *)
(* one action per step of the loops.                                       *)
(***************************************************************************)
others == <<activeVars, entitleVars, templateVars>>

RenderDatas == {NoData, [EmptyHash EXCEPT !.tag = Str(<<"D">>)]}

\* buffer[key] = value
put(buffer, key, value) ==
  [k \in DOMAIN buffer \cup {key} |-> IF k = key THEN value ELSE buffer[k]]

\* _.assign(buffer, other)
assignBuffer(buffer, other) ==
  [k \in DOMAIN buffer \cup DOMAIN other |->
     IF k \in DOMAIN other THEN other[k] ELSE buffer[k]]

\* The rename option: "none" is no function; "html" is a function that adds
\* the extension to every path but an index, for which it returns nothing.
renameResult(hook, path) ==
  IF hook = "html" /\ basename(path) # "index"
  THEN [path EXCEPT ![Len(path)] = @ \o ".html"]
  ELSE <<>>

\* echoPath = this.rename(echoPath) || echoPath, when rename is a function
renamed(hook, path) ==
  IF hook # "none" /\ renameResult(hook, path) # <<>>
  THEN renameResult(hook, path) ELSE path

\* The virtual path taken from the template's own name.
echoPathOfTemplate(path, data) == join(dirname(path), <<basename(path)>>)

\* pt.join(pt.dirname(path), data.name)
echoPathOf(path, data) == join(dirname(path), data.name.v)

\* _.each: the members visited from the first to the last.
each(compounded) == compounded

\* _.eachRight(compounded, ...): the order the members are visited in.
eachRight(compounded) ==
  [i \in 1..Len(compounded) |-> compounded[Len(compounded) + 1 - i]]

curPath == templates[rIdx].path

\* render(data) is called.
StartRender ==
  /\ pc = "setup"
  /\ \E data \in RenderDatas : rData' = data
  /\ rIdx' = 1
  /\ rBuffer' = <<>>
  /\ pc' = "render"
  /\ UNCHANGED <<tBuffer, heap, nDatas, dIdx, legends, echoPath, todo, calls, frames>>
  /\ UNCHANGED <<registryVars, others>>

\* render: the loop reaches an ignored template.
SkipIgnored ==
  /\ pc = "render"
  /\ rIdx <= Len(templates)
  /\ isIgnored(meta, curPath)
  /\ rIdx' = rIdx + 1
  /\ UNCHANGED <<rData, rBuffer, tBuffer, heap, nDatas, dIdx, legends, echoPath,
                 todo, calls, frames, pc>>
  /\ UNCHANGED <<registryVars, others>>

\* renderTemplate(path, data) up to its _.each loop: the legend, the data
\* clone and, with an echo, one clone per echoed legend.
BeginTemplate ==
  /\ pc = "render"
  /\ rIdx <= Len(templates)
  /\ ~isIgnored(meta, curPath)
  /\ LET legend == fileLegend(meta, curPath)
         data == [assign(Hash(rData), legend) EXCEPT
                    !.name = Str(<<basename(curPath)>>)]
         echo == legend.ty = "object" /\ IsTruthyString(legend.echo)
         e == echoLegend(metaAtPath(meta, curPath), legend)
     IN IF echo /\ ~e.ok
        THEN /\ pc' = "threw"
             /\ UNCHANGED <<heap, legends, nDatas, dIdx, tBuffer>>
        ELSE /\ pc' = "each"
             /\ legends' = IF echo THEN e.legends ELSE <<>>
             /\ heap' = IF echo
                        THEN [i \in 1..Len(e.legends) |->
                                assign(Hash(data), e.legends[i])]
                        ELSE <<data>>
             /\ nDatas' = IF echo THEN Len(e.legends) ELSE 1
             /\ dIdx' = 1
             /\ tBuffer' = <<>>
  /\ UNCHANGED <<rData, rIdx, rBuffer, echoPath, todo, calls, frames>>
  /\ UNCHANGED <<registryVars, others>>

\* renderTemplate's _.each callback begins: the virtual path is computed
\* and written to $path, and renderThrough splits the template's path.
BranchStart ==
  /\ pc = "each"
  /\ dIdx <= nDatas
  /\ echoPath' = echoPathOf(curPath, heap[dIdx])
  /\ heap' = [heap EXCEPT ![dIdx].path = Str(echoPath')]
  /\ todo' = eachRight(split(curPath))
  /\ calls' = <<>>
  /\ pc' = "locals"
  /\ UNCHANGED <<rData, rIdx, rBuffer, tBuffer, nDatas, dIdx, legends, frames>>
  /\ UNCHANGED <<registryVars, others>>

\* renderOne up to the template call: the renderer is resolved and the
\* default locals are written into the data object.
RenderOneLocals ==
  /\ pc = "locals"
  /\ LET path == Head(todo) IN
       /\ heap' = [heap EXCEPT ![dIdx] = locals(meta, path, @, dIdx)]
       /\ calls' = Append(calls, [path |-> path, data |-> dIdx,
                                  seen |-> heap[dIdx].content,
                                  result |-> Undefined])
       /\ pc' = IF renderer(templates, path).ok THEN "exec" ELSE "threw"
  /\ UNCHANGED <<rData, rIdx, rBuffer, tBuffer, nDatas, dIdx, legends, echoPath,
                 todo, frames>>
  /\ UNCHANGED <<registryVars, others>>

\* renderOne's template call and renderThrough's assignment of the result
\* to $content.
RenderOneExec ==
  /\ pc = "exec"
  /\ LET path == Head(todo)
         r == call(renderer(templates, path).ops, dIdx,
                   [ok |-> TRUE, out |-> <<>>, heap |-> heap, frames |-> <<>>],
                   templates, meta, 0)
     IN IF ~r.ok
        THEN /\ pc' = "threw"
             /\ UNCHANGED <<heap, calls, todo, frames>>
        ELSE /\ heap' = [SubSeq(r.heap, 1, nDatas) EXCEPT
                           ![dIdx].content = Str(r.out)]
             /\ calls' = [calls EXCEPT ![Len(calls)].result = Str(r.out)]
             /\ frames' = r.frames
             /\ todo' = Tail(todo)
             /\ pc' = IF Tail(todo) = <<>> THEN "write" ELSE "locals"
  /\ UNCHANGED <<rData, rIdx, rBuffer, tBuffer, nDatas, dIdx, legends, echoPath>>
  /\ UNCHANGED <<registryVars, others>>

\* renderThrough returns $content; the callback renames the virtual path
\* and writes the result under it.
BranchEnd ==
  /\ pc = "write"
  /\ tBuffer' = put(tBuffer, renamed(rename, echoPath),
                    [text |-> heap[dIdx].content.v, from |-> curPath])
  /\ dIdx' = dIdx + 1
  /\ pc' = "each"
  /\ UNCHANGED <<rData, rIdx, rBuffer, heap, nDatas, legends, echoPath, todo,
                 calls, frames>>
  /\ UNCHANGED <<registryVars, others>>

\* renderTemplate returns its buffer and render merges it into its own.
EndTemplate ==
  /\ pc = "each"
  /\ dIdx > nDatas
  /\ rBuffer' = assignBuffer(rBuffer, tBuffer)
  /\ rIdx' = rIdx + 1
  /\ pc' = "render"
  /\ UNCHANGED <<rData, tBuffer, heap, nDatas, dIdx, legends, echoPath, todo,
                 calls, frames>>
  /\ UNCHANGED <<registryVars, others>>

\* render returns its buffer.
FinishRender ==
  /\ pc = "render"
  /\ rIdx > Len(templates)
  /\ pc' = "done"
  /\ UNCHANGED renderVars
  /\ UNCHANGED <<registryVars, others>>

InitStatil ==
  /\ InitRegistry
  /\ InitRender
  /\ rename \in {"none", "html"}
  /\ pc = "setup"
  /\ IdleActive
  /\ IdleEntitle
  /\ IdleTemplate

NextStatil ==
  \/ Register
  \/ StartRender
  \/ SkipIgnored
  \/ BeginTemplate
  \/ BranchStart
  \/ RenderOneLocals
  \/ RenderOneExec
  \/ BranchEnd
  \/ EndTemplate
  \/ FinishRender

Spec == InitStatil /\ [][NextStatil]_vars

\* C4: a second metadata registration for a directory throws, whatever the
\* sources are, and the stored Metadata stays the first one.
DuplicateMetaThrows ==
  \A i, j \in 1..Len(regLog) :
    (i < j /\ regLog[i].dir = regLog[j].dir) =>
      /\ regLog[j].threw
      /\ meta[regLog[j].dir] =
           regLog[Min({k \in 1..Len(regLog) : regLog[k].dir = regLog[j].dir})].value

(***************************************************************************)
(* renderTemplate with an echo                                             *)
(***************************************************************************)
\* renderTemplate has run its last echo branch and is about to return.
EchoReturning == pc = "each" /\ dIdx > nDatas /\ legends # <<>>

\* join(dirname(templatePath), element.name) of the i-th echo element
JoinedPath(i) == join(dirname(curPath), legends[i].name.v)

\* C1 as stated: with an echo group of N elements with pairwise distinct
\* names and no rename hook, renderTemplate returns exactly N entries, keyed
\* by the joined paths of the elements.
EchoOneEntryPerName ==
  (EchoReturning /\ rename = "none" /\
   \A i, j \in 1..Len(legends) : i # j => legends[i].name # legends[j].name)
  => /\ Cardinality(DOMAIN tBuffer) = Len(legends)
     /\ DOMAIN tBuffer = {JoinedPath(i) : i \in 1..Len(legends)}

\* C1, amended: with an echo group of N elements whose joined paths are
\* pairwise distinct and no rename hook, renderTemplate returns exactly N
\* entries, keyed by the joined paths of the elements.
EchoOneEntryPerJoinedPath ==
  (EchoReturning /\ rename = "none")
  => /\ DOMAIN tBuffer = {JoinedPath(i) : i \in 1..Len(legends)}
     /\ (\A i, j \in 1..Len(legends) : i # j => JoinedPath(i) # JoinedPath(j))
          => Cardinality(DOMAIN tBuffer) = Len(legends)

EchoWitness ==
  /\ EchoReturning
  /\ rename = "none"
  /\ Len(legends) = 2
  /\ Cardinality(DOMAIN tBuffer) = 2

\* C2: in an echo branch, when renderOne executes the leaf template, the
\* context's name is the branch's element name and its $path the joined
\* path of that name.
EchoLeafSeesElementName ==
  (pc = "exec" /\ legends # <<>> /\ Head(todo) = curPath)
  => /\ heap[dIdx].name = legends[dIdx].name
     /\ heap[dIdx].path = Str(JoinedPath(dIdx))

(***************************************************************************)
(* render and the ignore pattern                                           *)
(***************************************************************************)
\* The basename of path matches the ignore pattern of its directory's
\* Metadata.
MatchesIgnore(path) ==
  LET mt == metaAt(meta, dirname(path)) IN
  /\ mt.ty = "object"
  /\ mt.ignore.ty = "string"
  /\ mt.ignore.v # <<>>
  /\ match(Chars(basename(path)), mt.ignore.v)

\* C3 as stated: render's result has no output path that matches the ignore
\* pattern of that path's directory.
NoIgnoredOutputPath ==
  pc = "done" => \A k \in DOMAIN rBuffer : ~MatchesIgnore(k)

\* C3, amended: render's result has no entry rendered from a registered
\* template whose basename matches the ignore pattern of the template's
\* directory; the output paths named by echo elements or by the rename hook
\* are not filtered.
NoOutputFromIgnoredTemplate ==
  pc = "done" => \A k \in DOMAIN rBuffer : ~MatchesIgnore(rBuffer[k].from)

IgnoreWitness ==
  /\ pc = "done"
  /\ \E i \in 1..Len(templates) : MatchesIgnore(templates[i].path)
  /\ DOMAIN rBuffer # {}

(***************************************************************************)
(* renderThrough and renderOne                                             *)
(***************************************************************************)
Unregistered(path) == \A i \in 1..Len(templates) : templates[i].path # path

\* C5: a renderOne call for a path without a registered template does not
\* fail and returns the $content it was called with.
MissingTemplatePassesContent ==
  \A i \in 1..Len(calls) :
    (Unregistered(calls[i].path) /\ calls[i].seen.ty = "string")
    => \/ calls[i].result = calls[i].seen
       \/ (i = Len(calls) /\ pc = "exec")

MissingLevelWitness ==
  /\ pc = "write"
  /\ Len(calls) = 3
  /\ Unregistered(calls[2].path)
  /\ calls[2].result = calls[1].result
  /\ calls[2].result.v # <<>>
  /\ calls[3].result # calls[2].result

\* The ancestor chain of the template being rendered, leaf first.
LeafToRoot ==
  LET c == split(curPath) IN [i \in 1..Len(c) |-> c[Len(c) + 1 - i]]

\* C10: when renderThrough returns, renderOne has been called once per
\* chain member, leaf first, on one context; every call after the first
\* saw the previous call's result as $content, and the value returned is
\* the root member's result.
ChainOrder ==
  pc = "write" =>
    /\ [i \in 1..Len(calls) |-> calls[i].path] = LeafToRoot
    /\ \A i \in 1..Len(calls) : calls[i].data = dIdx
    /\ \A i \in 2..Len(calls) : calls[i].seen = calls[i - 1].result
    /\ heap[dIdx].content = calls[Len(calls)].result

ChainOrderWitness ==
  /\ pc = "write"
  /\ Len(calls) = 3
  /\ calls[1].result # calls[2].result
  /\ calls[2].result # calls[3].result

(***************************************************************************)
(* $include                                                                *)
(***************************************************************************)
\* C7: after $include returns, every key of the caller's context has the
\* value it had before the call.
IncludeKeepsCaller ==
  \A i \in 1..Len(frames) : frames[i].after = frames[i].before

IncludeWitness ==
  \E i \in 1..Len(frames) :
    /\ frames[i].callee.title # frames[i].before.title
    /\ frames[i].callee.self # frames[i].before.self
====
